---- MODULE Spec2Model ----
(***************************************************************************)
(* LLM-Checkmate agent: device identity store, hardware scanner, report    *)
(* sender and the run_scan pipeline.                                       *)
(*                                                                         *)
(*   SpecId   : concurrent invocations of get_or_create_device_id on one   *)
(*              shared ~/.llm_checkmate/device.json                        *)
(*   SpecScan : scan_system over every combination of probe outcomes       *)
(*   SpecSend : send_data over URLs and transport outcomes                 *)
(*   SpecRun  : run_scan, step by step                                     *)
(***************************************************************************)
EXTENDS Integers, Sequences, FiniteSets, TLC

\* ---------------------------------------------------------------- bounds
NumProcs == 2
MaxCalls == 3
MaxDev == 2
MaxLines == 1
MaxParts == 3

Procs == 1..NumProcs

\* ------------------------------------------------------------ device_id.py
VARIABLES dirExists, file, file0, pc, path, wrote, new_id, ret,
          calls, nextId, ioFailed, returned

idVars == <<dirExists, file, file0, pc, path, wrote, new_id, ret,
            calls, nextId, ioFailed, returned>>

\* -------------------------------------------------------------- scanner.py
VARIABLES env, scanned, data, invoked

scanVars == <<env, scanned, data, invoked>>

\* --------------------------------------------------------------- sender.py
VARIABLES api_url, transport, sent, requested, result

sendVars == <<api_url, transport, sent, requested, result>>

\* ------------------------------------------------------------------ cli.py
VARIABLES rpc, backend_url, fs, device_uuid, system_metrics, send_res,
          exit_status

runVars == <<rpc, backend_url, fs, device_uuid, system_metrics, send_res,
             exit_status>>

vars == <<idVars, scanVars, sendVars, runVars>>

notIdVars == <<scanVars, sendVars, runVars>>

notScanVars == <<idVars, sendVars, runVars>>

notSendVars == <<idVars, scanVars, runVars>>

notRunVars == <<idVars, scanVars, sendVars>>

\* each specification exercises one module and leaves the others unused
IdUnused ==
    /\ dirExists = FALSE /\ file = <<>> /\ file0 = <<>> /\ pc = <<>>
    /\ path = <<>> /\ wrote = <<>> /\ new_id = <<>> /\ ret = <<>>
    /\ calls = 0 /\ nextId = 0 /\ ioFailed = FALSE /\ returned = {}

ScanUnused ==
    env = <<>> /\ scanned = FALSE /\ data = <<>> /\ invoked = <<>>

SendUnused ==
    /\ api_url = <<>> /\ transport = <<>> /\ sent = FALSE
    /\ requested = <<>> /\ result = <<>>

RunUnused ==
    /\ rpc = "unused" /\ backend_url = <<>> /\ fs = <<>> /\ device_uuid = <<>>
    /\ system_metrics = <<>> /\ send_res = <<>> /\ exit_status = 0

\* str(uuid.uuid4()): a fresh identifier in UUID text form
UUID(n) ==
    <<"uuid", n>>

IsUUID(v) ==
    v[1] = "uuid"

NoId == <<"none", 0>>

\* values a pre-existing device.json may hold under "device_id"
StoredIds ==
    {UUID(0), <<"text", 0>>, <<"null", 0>>}

\* what json.load can make of the file's bytes
Content(kind, has, id, ts) ==
    [kind |-> kind, has |-> has, device_id |-> id, created_at |-> ts]

Empty ==
    Content("invalid", FALSE, NoId, 0)

InitContents ==
    {Content(k, h, NoId, 0) : k \in {"string", "list"}, h \in BOOLEAN}
    \cup {Empty, Content("scalar", FALSE, NoId, 0), Content("object", FALSE, NoId, 0)}
    \cup {Content("object", TRUE, i, 0) : i \in StoredIds}

Absent ==
    [exists |-> FALSE, readable |-> FALSE, content |-> Empty]

\* the with-open / json.load / "device_id" in data / data["device_id"] block
Lookup_noreturn(f) ==
    [found |-> FALSE, value |-> NoId]

Lookup_nocheck(f) ==
    IF f.content.kind = "object"
    THEN [found |-> TRUE, value |-> f.content.device_id]
    ELSE [found |-> FALSE, value |-> NoId]

Lookup(f) ==
    IF ~f.readable THEN [found |-> FALSE, value |-> NoId]            \* open() raises
    ELSE IF f.content.kind = "invalid" THEN [found |-> FALSE, value |-> NoId]  \* JSONDecodeError
    ELSE IF f.content.kind = "scalar" THEN [found |-> FALSE, value |-> NoId]   \* TypeError on `in`
    ELSE IF f.content.kind \in {"string", "list"}
         THEN [found |-> FALSE, value |-> NoId]   \* has: TypeError on data[...]; else falls through
    ELSE IF f.content.has THEN [found |-> TRUE, value |-> f.content.device_id]
    ELSE [found |-> FALSE, value |-> NoId]

\* json.dump({"device_id": new_id, "created_at": str(datetime.now())}, f)
Record_stale(id, ts) ==
    Content("object", FALSE, id, ts)

Record(id, ts) ==
    Content("object", TRUE, id, ts)

Quiet(p) ==
    pc[p] \in {"idle", "done", "raised"}

InitId ==
    /\ \/ dirExists = FALSE /\ file = Absent
       \/ dirExists = TRUE /\ file = Absent
       \/ /\ dirExists = TRUE
          /\ \E c \in InitContents, r \in BOOLEAN :
                file = [exists |-> TRUE, readable |-> r, content |-> c]
    /\ file0 = file
    /\ pc = [p \in Procs |-> "idle"]
    /\ path = [p \in Procs |-> "none"]
    /\ wrote = [p \in Procs |-> "none"]
    /\ new_id = [p \in Procs |-> NoId]
    /\ ret = [p \in Procs |-> NoId]
    /\ calls = 0
    /\ nextId = 1
    /\ ioFailed = FALSE
    /\ returned = {}
    /\ ScanUnused /\ SendUnused /\ RunUnused

\* a process (one run of the agent, or one call within a run) enters
\* get_or_create_device_id
Call(p) ==
    /\ Quiet(p)
    /\ calls < MaxCalls
    /\ calls' = calls + 1
    /\ pc' = [pc EXCEPT ![p] = "ensure_dir"]
    /\ path' = [path EXCEPT ![p] = "none"]
    /\ wrote' = [wrote EXCEPT ![p] = "none"]
    /\ new_id' = [new_id EXCEPT ![p] = NoId]
    /\ ret' = [ret EXCEPT ![p] = NoId]
    /\ UNCHANGED <<dirExists, file, file0, nextId, ioFailed, returned>>
    /\ UNCHANGED notIdVars

\* _ensure_dir: if not os.path.exists(CONFIG_DIR)
EnsureDirCheck(p) ==
    /\ pc[p] = "ensure_dir"
    /\ pc' = [pc EXCEPT ![p] = IF dirExists THEN "file_check" ELSE "makedirs"]
    /\ UNCHANGED <<dirExists, file, file0, path, wrote, new_id, ret,
                   calls, nextId, ioFailed, returned>>
    /\ UNCHANGED notIdVars

\* _ensure_dir: os.makedirs(CONFIG_DIR); FileExistsError when another
\* invocation created it meanwhile, OSError when it cannot be created
MakeDirs(p) ==
    /\ pc[p] = "makedirs"
    /\ \/ /\ dirExists
          /\ pc' = [pc EXCEPT ![p] = "raised"]
          /\ UNCHANGED <<dirExists, ioFailed>>
       \/ /\ ~dirExists
          /\ dirExists' = TRUE
          /\ pc' = [pc EXCEPT ![p] = "file_check"]
          /\ UNCHANGED ioFailed
       \/ /\ ~dirExists
          /\ ioFailed' = TRUE
          /\ pc' = [pc EXCEPT ![p] = "raised"]
          /\ UNCHANGED dirExists
    /\ UNCHANGED <<file, file0, path, wrote, new_id, ret, calls, nextId, returned>>
    /\ UNCHANGED notIdVars

\* if os.path.exists(DEVICE_FILE)
FileCheck(p) ==
    /\ pc[p] = "file_check"
    /\ pc' = [pc EXCEPT ![p] = IF file.exists THEN "load" ELSE "generate"]
    /\ UNCHANGED <<dirExists, file, file0, path, wrote, new_id, ret,
                   calls, nextId, ioFailed, returned>>
    /\ UNCHANGED notIdVars

\* the try block: whole-file read, parse, membership test, return
Load(p) ==
    /\ pc[p] = "load"
    /\ LET r == Lookup(file) IN
         IF r.found
         THEN /\ pc' = [pc EXCEPT ![p] = "done"]
              /\ path' = [path EXCEPT ![p] = "found"]
              /\ ret' = [ret EXCEPT ![p] = r.value]
              /\ returned' = returned \cup {r.value}
         ELSE /\ pc' = [pc EXCEPT ![p] = "generate"]
              /\ UNCHANGED <<path, ret, returned>>
    /\ UNCHANGED <<dirExists, file, file0, wrote, new_id, calls, nextId, ioFailed>>
    /\ UNCHANGED notIdVars

\* new_id = str(uuid.uuid4())
Generate(p) ==
    /\ pc[p] = "generate"
    /\ new_id' = [new_id EXCEPT ![p] = UUID(nextId)]
    /\ nextId' = nextId + 1
    /\ path' = [path EXCEPT ![p] = "regen"]
    /\ pc' = [pc EXCEPT ![p] = "open_w"]
    /\ UNCHANGED <<dirExists, file, file0, wrote, ret, calls, ioFailed, returned>>
    /\ UNCHANGED notIdVars

\* open(DEVICE_FILE, "w"): truncates the file, or fails and the id is
\* returned anyway
OpenW(p) ==
    /\ pc[p] = "open_w"
    /\ \/ /\ file' = [exists |-> TRUE,
                      readable |-> IF file.exists THEN file.readable ELSE TRUE,
                      content |-> Empty]
          /\ pc' = [pc EXCEPT ![p] = "dump"]
          /\ UNCHANGED <<wrote, ret, ioFailed, returned>>
       \/ /\ ioFailed' = TRUE
          /\ wrote' = [wrote EXCEPT ![p] = "open_failed"]
          /\ pc' = [pc EXCEPT ![p] = "done"]
          /\ ret' = [ret EXCEPT ![p] = new_id[p]]
          /\ returned' = returned \cup {new_id[p]}
          /\ UNCHANGED file
    /\ UNCHANGED <<dirExists, file0, path, new_id, calls, nextId>>
    /\ UNCHANGED notIdVars

\* json.dump(...) and close: the whole record lands in the file, or the
\* write fails and the id is returned anyway
Dump(p) ==
    /\ pc[p] = "dump"
    /\ \/ /\ file' = [file EXCEPT !.exists = TRUE, !.content = Record(new_id[p], calls)]
          /\ wrote' = [wrote EXCEPT ![p] = "ok"]
          /\ UNCHANGED ioFailed
       \/ /\ ioFailed' = TRUE
          /\ wrote' = [wrote EXCEPT ![p] = "dump_failed"]
          /\ UNCHANGED file
    /\ pc' = [pc EXCEPT ![p] = "done"]
    /\ ret' = [ret EXCEPT ![p] = new_id[p]]
    /\ returned' = returned \cup {new_id[p]}
    /\ UNCHANGED <<dirExists, file0, path, new_id, calls, nextId>>
    /\ UNCHANGED notIdVars

NextId ==
    \E p \in Procs :
        \/ Call(p)
        \/ EnsureDirCheck(p)
        \/ MakeDirs(p)
        \/ FileCheck(p)
        \/ Load(p)
        \/ Generate(p)
        \/ OpenW(p)
        \/ Dump(p)

SpecId ==
    InitId /\ [][NextId]_vars

\* the file exists, can be read, and parses to an object with a device_id key
ValidFile(f) ==
    f.exists /\ f.readable /\ f.content.kind = "object" /\ f.content.has

AllQuiet ==
    \A p \in Procs : Quiet(p)

\* ------------------------------------------------------------------ C1
C1Inv ==
    ValidFile(file0) =>
        /\ file = file0
        /\ \A p \in Procs :
              /\ pc[p] # "raised"
              /\ path[p] # "regen"
              /\ pc[p] = "done" => ret[p] = file0.content.device_id

C1Step ==
    \A p \in Procs :
        (pc[p] = "load" /\ pc'[p] # "load" /\ ValidFile(file)) =>
            /\ pc'[p] = "done"
            /\ ret'[p] = file.content.device_id
            /\ file' = file

\* C1: whenever device.json exists and parses to an object holding a
\* device_id, get_or_create_device_id returns exactly the stored value and
\* leaves the file as it was; starting from such a file every call of every
\* run returns that one value.
C1_Idempotent ==
    []C1Inv /\ [][C1Step]_vars

C1_Witness ==
    /\ ValidFile(file0)
    /\ calls >= 3
    /\ \A p \in Procs : pc[p] = "done" /\ ret[p] = file0.content.device_id

\* ------------------------------------------------------------------ C2
\* C2 as stated: with the file absent, unreadable, invalid or lacking
\* device_id, get_or_create_device_id never raises.
C2_NeverRaises ==
    \A p \in Procs : pc[p] = "raised" => ValidFile(file)

PastEnsureDir ==
    {"file_check", "load", "generate", "open_w", "dump"}

C2Inv ==
    \A p \in Procs :
        /\ pc[p] = "raised" => (path[p] = "none" /\ new_id[p] = NoId)
        /\ (pc[p] = "done" /\ path[p] = "regen") =>
              /\ IsUUID(ret[p])
              /\ ret[p] = new_id[p]
              /\ wrote[p] \in {"ok", "open_failed", "dump_failed"}
              /\ ~(file0.exists /\ ret[p] = file0.content.device_id)
        /\ \A q \in Procs : (q # p /\ new_id[p] # NoId) => new_id[q] # new_id[p]

C2Step ==
    \A p \in Procs :
        /\ (pc[p] = "file_check" /\ pc'[p] # "file_check" /\ ~file.exists)
              => pc'[p] = "generate"
        /\ (pc[p] = "load" /\ pc'[p] # "load" /\ ~ValidFile(file))
              => pc'[p] = "generate"
        /\ pc[p] \in PastEnsureDir => pc'[p] # "raised"
        /\ (pc[p] = "generate" /\ pc'[p] # "generate") => pc'[p] = "open_w"
        /\ (pc[p] = "open_w" /\ pc'[p] = "dump") => (file'.exists /\ file'.content = Empty)
        /\ (pc[p] = "dump" /\ wrote'[p] = "ok") =>
              /\ ValidFile([file' EXCEPT !.readable = TRUE])
              /\ file'.content.device_id = new_id[p]

\* C2 (amended): once _ensure_dir has succeeded, a file that is absent,
\* unreadable, syntactically invalid or without a device_id field makes
\* get_or_create_device_id generate a fresh UUID, try to overwrite the file
\* with {device_id, created_at} and return that UUID without raising, also
\* when opening or writing the file fails; the only raise is os.makedirs's.
C2_Regenerates ==
    []C2Inv /\ [][C2Step]_vars

C2_Witness ==
    \E p \in Procs :
        /\ pc[p] = "done" /\ path[p] = "regen" /\ wrote[p] = "open_failed"
        /\ file0.exists /\ file0.content.kind = "object" /\ ~file0.content.has
        /\ IsUUID(ret[p])

\* ----------------------------------------------------------------- C10
Stable ==
    ValidFile(file) /\ \A p \in Procs : pc[p] \notin {"generate", "open_w", "dump"}

C10Inv ==
    (~file0.exists /\ ~ioFailed /\ calls > 0 /\ AllQuiet) =>
        /\ ValidFile(file)
        /\ IsUUID(file.content.device_id)
        /\ file.content.device_id \in returned

C10Step ==
    Stable =>
        /\ Stable'
        /\ file' = file
        /\ \A p \in Procs :
              (pc[p] # "done" /\ pc'[p] = "done") => ret'[p] = file.content.device_id

\* C10: from no device.json and with no write failing, under every
\* interleaving of the invocations' steps, once all invocations have
\* finished the file holds a well-formed record whose device_id is an id one
\* of them returned; from then on the file never changes and every later
\* invocation returns that id.
C10_Converges ==
    []C10Inv /\ [][C10Step]_vars

C10_Witness ==
    /\ ~file0.exists /\ ~ioFailed /\ AllQuiet
    /\ Cardinality(returned) >= 2
    /\ \E p \in Procs : pc[p] = "done" /\ path[p] = "found"
                          /\ ret[p] = file.content.device_id

\* ======================================================== scanner.py
\* Sizes are kept in hundredths of a GB: round(x, 2) of an exactly
\* representable quotient is round-half-even of x * 100.
RoundHalfEven(n, d) ==
    LET q == n \div d
        r == n % d
    IN  IF 2 * r < d THEN q
        ELSE IF 2 * r > d THEN q + 1
        ELSE IF q % 2 = 0 THEN q ELSE q + 1

\* round(b / (1024**3), 2) in hundredths, 0 <= b < 2^31, computed as
\* b * 25 / 2^28 in 14-bit limbs so that no intermediate exceeds 2^31
Round2GiB(b) ==
    LET lim == 2^14
        bh == b \div lim
        bl == b % lim
        a  == bh * 25
        ah == a \div lim
        al == a % lim
        rest == al * lim + bl * 25
        q == ah + (rest \div (2^28))
        r == rest % (2^28)
    IN  IF 2 * r < 2^28 THEN q
        ELSE IF 2 * r > 2^28 THEN q + 1
        ELSE IF q % 2 = 0 THEN q ELSE q + 1

Abs(v) ==
    IF v < 0 THEN -v ELSE v

EmptyObj ==
    [k \in {} |-> 0]

Ok(v) ==
    [raised |-> FALSE, value |-> v]

Raise ==
    [raised |-> TRUE, value |-> EmptyObj]

\* AdapterRAM column values wmic may print; NoInt is a cell int() rejects
NoInt ==
    [int |-> FALSE, v |-> 0]

VramBytes ==
    {-1073741824, -1, 0, 102005473, 102005474, 107374182, 1073741824}

Cells ==
    {[int |-> TRUE, v |-> b] : b \in VramBytes} \cup {NoInt}

RECURSIVE SeqsUpTo(_, _)
SeqsUpTo(S, n) ==
    IF n = 0 THEN {<<>>}
    ELSE LET shorter == SeqsUpTo(S, n - 1)
         IN  shorter \cup {Append(t, x) : t \in {u \in shorter : Len(u) = n - 1}, x \in S}

\* what one strategy's try block can meet: how many devices its loop
\* appended before the block ended, and whether it ended by an exception
\* (a failed import is an exception with nothing appended)
DevProbes ==
    [appended : 0..MaxDev, raised : BOOLEAN]

GputilProbes ==
    DevProbes

\* torch: cuda devices, or no cuda and the MPS backend available
TorchProbes ==
    {[mode |-> "cuda", appended |-> d.appended, raised |-> d.raised] : d \in DevProbes}
    \cup {[mode |-> "mps", appended |-> 1, raised |-> FALSE]}

\* wmic exists on Windows only
WmicGpuProbes(windows) ==
    {[ok |-> FALSE, lines |-> <<>>]}
    \cup IF windows
         THEN {[ok |-> TRUE, lines |-> l] : l \in SeqsUpTo(Cells, MaxLines)}
         ELSE {}

\* psutil failing, else how the Windows-only wmic name query ends and
\* whether psutil.cpu_freq() knows the frequency
CpuProbes(windows) ==
    {[fail |-> TRUE, wmic |-> "fail", freq_known |-> FALSE]}
    \cup {[fail |-> FALSE, wmic |-> w, freq_known |-> k] :
            w \in (IF windows THEN {"ok", "fail"} ELSE {"fail"}), k \in BOOLEAN}

\* get_cpu_info's outer try body
cpu_try(e) ==
    IF e.cpu.fail THEN Raise
    ELSE Ok([brand |-> IF e.windows /\ e.cpu.wmic = "ok" THEN "friendly" ELSE "generic",
             architecture |-> "x86_64",
             physical_cores |-> 4,
             logical_cores |-> 8,
             frequency_max |-> IF e.cpu.freq_known THEN 3600 ELSE 0,
             usage_percent |-> 10])

get_cpu_info_unguarded(e) ==
    cpu_try(e)

get_cpu_info(e) ==
    IF cpu_try(e).raised THEN Ok(EmptyObj) ELSE cpu_try(e)

\* psutil totals are given in MiB here (16 GiB, 8 GiB), so / 1024**3 of the
\* byte count is / 1024 of these
get_ram_info(e) ==
    IF e.ram_fail THEN Ok(EmptyObj)
    ELSE Ok([total_gb |-> RoundHalfEven(16000 * 100, 1024),
             available_gb |-> RoundHalfEven(8000 * 100, 1024),
             percent_used |-> 50])

get_disk_info(e) ==
    IF e.disk_fail THEN Ok(EmptyObj)
    ELSE Ok([total_gb |-> RoundHalfEven(476000 * 100, 1024),
             free_gb |-> RoundHalfEven(100000 * 100, 1024),
             percent_used |-> 79])

\* strategy 1: GPUtil.getGPUs(), memory in MB
gputil_yield(e) ==
    [i \in 1..e.gputil.appended |->
        [name |-> "nvidia",
         vram_total_gb |-> RoundHalfEven(8192 * 100, 1024),
         vram_free_gb |-> RoundHalfEven(6000 * 100, 1024),
         source |-> "gputil"]]

\* strategy 2: torch.cuda devices, else the MPS entry
torch_yield(e) ==
    IF e.torch.mode = "cuda"
    THEN [i \in 1..e.torch.appended |->
            [name |-> "cuda",
             vram_total_gb |-> Round2GiB(1610612736),
             source |-> "torch"]]
    ELSE IF e.torch.mode = "mps"
    THEN <<[name |-> "Apple Unified Memory (MPS)",
            vram_total_gb |-> 0, source |-> "torch-mps"]>>
    ELSE <<>>

\* vram_gb of one wmic line: int(), abs(), round, clamp
vram_gb_noclamp(cell) ==
    IF ~cell.int THEN 0 ELSE Round2GiB(Abs(cell.v))

vram_gb(cell) ==
    LET vram_bytes == IF ~cell.int THEN 0 ELSE cell.v
        gb == Round2GiB(Abs(vram_bytes))
    IN  IF gb < 10 THEN 0 ELSE gb

\* strategy 3: wmic path win32_VideoController get name,AdapterRAM
wmic_yield(e) ==
    IF ~e.wmic.ok THEN <<>>
    ELSE [i \in 1..Len(e.wmic.lines) |->
            [name |-> "adapter",
             vram_total_gb |-> vram_gb(e.wmic.lines[i]),
             source |-> "wmic"]]

\* get_gpu_info with the strategies it entered, in order
gpu_run_nogate(e) ==
    [gpus |-> gputil_yield(e) \o torch_yield(e),
     invoked |-> <<1, 2>>]

gpu_run(e) ==
    LET g1 == gputil_yield(e)
        g2 == IF g1 = <<>> THEN torch_yield(e) ELSE g1
        g3 == IF g2 = <<>> /\ e.windows THEN wmic_yield(e) ELSE g2
    IN  [gpus |-> g3,
         invoked |-> <<1>> \o (IF g1 = <<>> THEN <<2>> ELSE <<>>)
                          \o (IF g2 = <<>> /\ e.windows THEN <<3>> ELSE <<>>)]

get_gpu_info(e) ==
    Ok(gpu_run(e).gpus)

\* scan_system: no try of its own, so a collector's raise would escape
scan_system(e) ==
    LET cpu == get_cpu_info(e)
        ram == get_ram_info(e)
        storage == get_disk_info(e)
        gpu == get_gpu_info(e)
    IN  IF cpu.raised \/ ram.raised \/ storage.raised \/ gpu.raised THEN Raise
        ELSE Ok([os |-> [system |-> IF e.windows THEN "Windows" ELSE "Linux",
                         release |-> "r", version |-> "v"],
                 cpu |-> cpu.value,
                 ram |-> ram.value,
                 storage |-> storage.value,
                 gpu |-> gpu.value])

InitScan ==
    /\ \E w \in BOOLEAN, rf \in BOOLEAN, df \in BOOLEAN,
          g \in GputilProbes, t \in TorchProbes :
          \E c \in CpuProbes(w), x \in WmicGpuProbes(w) :
             env = [windows |-> w, cpu |-> c, ram_fail |-> rf, disk_fail |-> df,
                    gputil |-> g, torch |-> t, wmic |-> x]
    /\ scanned = FALSE
    /\ data = Raise
    /\ invoked = <<>>
    /\ IdUnused /\ SendUnused /\ RunUnused

ScanSystem ==
    /\ ~scanned
    /\ scanned' = TRUE
    /\ data' = scan_system(env)
    /\ invoked' = gpu_run(env).invoked
    /\ UNCHANGED env
    /\ UNCHANGED notScanVars

NextScan ==
    ScanSystem

SpecScan ==
    InitScan /\ [][NextScan]_vars

GpuOut ==
    data.value.gpu

WmicRan ==
    scanned /\ ~data.raised /\ Len(invoked) = 3 /\ env.wmic.ok

\* ------------------------------------------------------------------ C3
\* C3: get_gpu_info enters its strategies in the order GPUtil, torch, wmic;
\* when GPUtil yields a device the other two are not entered and the result
\* is GPUtil's devices; torch is entered exactly when GPUtil yielded
\* nothing, wmic exactly when both yielded nothing and the system is
\* Windows; the result is the first non-empty yield, or the empty list.
C3_StrategyPriority ==
    (scanned /\ ~data.raised) =>
        LET g1 == gputil_yield(env)
            g2 == torch_yield(env)
            g3 == wmic_yield(env)
        IN  /\ invoked \in {<<1>>, <<1, 2>>, <<1, 2, 3>>}
            /\ g1 # <<>> => (invoked = <<1>> /\ GpuOut = g1)
            /\ Len(invoked) >= 2 <=> g1 = <<>>
            /\ Len(invoked) = 3 <=> (g1 = <<>> /\ g2 = <<>> /\ env.windows)
            /\ (g1 = <<>> /\ g2 # <<>>) => GpuOut = g2
            /\ (g1 = <<>> /\ g2 = <<>> /\ env.windows) => GpuOut = g3
            /\ (g1 = <<>> /\ g2 = <<>> /\ ~env.windows) => GpuOut = <<>>

C3_Witness ==
    /\ scanned /\ ~data.raised
    /\ invoked = <<1>>
    /\ env.gputil.appended = 1 /\ env.gputil.raised
    /\ env.torch.appended >= 1
    /\ env.windows /\ env.wmic.ok /\ Len(env.wmic.lines) >= 1
    /\ Len(GpuOut) = 1 /\ GpuOut[1].source = "gputil"

ClampMaxBytes == 102005473

Sections ==
    {"os", "cpu", "ram", "storage", "gpu"}

\* C9: whatever probes fail, scan_system returns without raising an object
\* with exactly the sections os, cpu, ram, storage, gpu; a failed CPU, RAM
\* or disk collector empties its own section and no other, and gpu is a
\* list, possibly empty.
C9_TotalShape ==
    scanned =>
        /\ ~data.raised
        /\ DOMAIN data.value = Sections
        /\ DOMAIN data.value.os = {"system", "release", "version"}
        /\ IF env.cpu.fail THEN data.value.cpu = EmptyObj
           ELSE DOMAIN data.value.cpu =
                  {"brand", "architecture", "physical_cores", "logical_cores",
                   "frequency_max", "usage_percent"}
        /\ IF env.ram_fail THEN data.value.ram = EmptyObj
           ELSE DOMAIN data.value.ram = {"total_gb", "available_gb", "percent_used"}
        /\ IF env.disk_fail THEN data.value.storage = EmptyObj
           ELSE DOMAIN data.value.storage = {"total_gb", "free_gb", "percent_used"}
        /\ DOMAIN GpuOut = 1..Len(GpuOut)
        /\ \A i \in 1..Len(GpuOut) : {"name", "source"} \subseteq DOMAIN GpuOut[i]

C9_Witness ==
    /\ scanned /\ ~data.raised
    /\ env.cpu.fail /\ env.ram_fail /\ ~env.disk_fail
    /\ env.windows /\ env.gputil.raised /\ env.torch.raised /\ ~env.wmic.ok
    /\ data.value.cpu = EmptyObj /\ data.value.ram = EmptyObj
    /\ DOMAIN data.value.storage # {}
    /\ GpuOut = <<>>

\* ========================================================= sender.py
\* URLs are sequences of characters; "h" stands for scheme and authority
\* (it holds no "/" at its end), "x" for any other character
Suffix ==
    <<"/", "a", "p", "i", "/", "d", "e", "v", "i", "c", "e",
      "/", "r", "e", "g", "i", "s", "t", "e", "r">>

UrlParts ==
    {<<"/">>, <<"x">>, Suffix}

RECURSIVE UrlTails(_)
UrlTails(n) ==
    IF n = 0 THEN {<<>>}
    ELSE UrlTails(n - 1) \cup {t \o q : t \in UrlTails(n - 1), q \in UrlParts}

Urls ==
    {<<"h">> \o t : t \in UrlTails(MaxParts)}

\* str.endswith
EndsWith(u, suf) ==
    /\ Len(u) >= Len(suf)
    /\ SubSeq(u, Len(u) - Len(suf) + 1, Len(u)) = suf

\* str.rstrip('/')
RECURSIVE RStrip(_)
RStrip(u) ==
    IF u # <<>> /\ u[Len(u)] = "/" THEN RStrip(SubSeq(u, 1, Len(u) - 1)) ELSE u

\* lines 17-19: the URL that is requested
normalize_nostrip(u) ==
    IF ~EndsWith(u, Suffix) THEN u \o Suffix ELSE u

normalize(u) ==
    IF ~EndsWith(u, Suffix) THEN RStrip(u) \o Suffix ELSE u

\* what requests.post meets: an exception, or a response with a status
\* and a body that response.json() can or cannot parse
Statuses ==
    {101, 200, 201, 299, 300, 304, 399, 400, 404, 499, 500, 599}

Transports ==
    {[kind |-> k, status |-> 0, json_ok |-> FALSE] :
        k \in {"timeout", "connect_timeout", "connection_error", "other"}}
    \cup {[kind |-> "response", status |-> st, json_ok |-> j] :
            st \in Statuses, j \in BOOLEAN}

\* the exception the try body ends with, as the set of classes it is an
\* instance of ("none": the body returned)
NoExc ==
    [classes |-> {}, status |-> 0, cause |-> "none"]

Exc(classes, status, cause) ==
    [classes |-> classes \cup {"Exception"}, status |-> status, cause |-> cause]

\* Response.raise_for_status: 400 <= status < 500, 500 <= status < 600
raise_for_status(status) ==
    IF 400 <= status /\ status < 500 THEN Exc({"HTTPError", "RequestException"}, status, "Client Error")
    ELSE IF 500 <= status /\ status < 600 THEN Exc({"HTTPError", "RequestException"}, status, "Server Error")
    ELSE NoExc

try_body(t) ==
    IF t.kind = "timeout" THEN Exc({"Timeout", "RequestException"}, 0, "ReadTimeout")
    ELSE IF t.kind = "connect_timeout"
         THEN Exc({"Timeout", "ConnectionError", "RequestException"}, 0, "ConnectTimeout")
    ELSE IF t.kind = "connection_error"
         THEN Exc({"ConnectionError", "RequestException"}, 0, "ConnectionError")
    ELSE IF t.kind = "other" THEN Exc({}, 0, "other")
    ELSE IF raise_for_status(t.status) # NoExc THEN raise_for_status(t.status)
    ELSE IF ~t.json_ok THEN Exc({"JSONDecodeError", "RequestException"}, 0, "JSONDecodeError")
    ELSE NoExc

Reason(text, status, cause) ==
    [text |-> text, status |-> status, cause |-> cause]

Failure(reason) ==
    [raised |-> FALSE, ok |-> FALSE, body |-> "", reason |-> reason]

\* the except clauses, in their order
handle_nogeneric(x) ==
    IF "Timeout" \in x.classes THEN Failure(Reason("Timeout", 0, ""))
    ELSE IF "ConnectionError" \in x.classes THEN Failure(Reason("Connection Error", 0, ""))
    ELSE IF "HTTPError" \in x.classes THEN Failure(Reason("HTTP Error: ", x.status, x.cause))
    ELSE [raised |-> TRUE, ok |-> FALSE, body |-> "", reason |-> Reason("", 0, x.cause)]

handle(x) ==
    IF "Timeout" \in x.classes THEN Failure(Reason("Timeout", 0, ""))
    ELSE IF "ConnectionError" \in x.classes THEN Failure(Reason("Connection Error", 0, ""))
    ELSE IF "HTTPError" \in x.classes THEN Failure(Reason("HTTP Error: ", x.status, x.cause))
    ELSE Failure(Reason("", 0, x.cause))

\* send_data's result for a requested URL that meets transport t
send_data(u, t) ==
    IF try_body(t) = NoExc
    THEN [raised |-> FALSE, ok |-> TRUE, body |-> "json", reason |-> Reason("", 0, "")]
    ELSE handle(try_body(t))

InitSend ==
    /\ api_url \in Urls
    /\ transport \in Transports
    /\ sent = FALSE
    /\ requested = <<>>
    /\ result = Failure(Reason("", 0, ""))
    /\ IdUnused /\ ScanUnused /\ RunUnused

SendData ==
    /\ ~sent
    /\ sent' = TRUE
    /\ requested' = normalize(api_url)
    /\ result' = send_data(normalize(api_url), transport)
    /\ UNCHANGED <<api_url, transport>>
    /\ UNCHANGED notSendVars

NextSend ==
    SendData

SpecSend ==
    InitSend /\ [][NextSend]_vars

\* number of places where suf occurs in u
Occurrences(u, suf) ==
    Cardinality({i \in 1..Len(u) :
        i + Len(suf) - 1 <= Len(u) /\ SubSeq(u, i, i + Len(suf) - 1) = suf})

\* ------------------------------------------------------------------ C5
\* C5 as stated: the requested URL ends with /api/device/register, and
\* when the input already names the registration path the requested URL
\* holds that path exactly once.
C5_SuffixOnce ==
    sent =>
        /\ EndsWith(requested, Suffix)
        /\ Occurrences(api_url, Suffix) = 1 => Occurrences(requested, Suffix) = 1

\* C5 (amended): the requested URL always ends with /api/device/register;
\* an input that ends with that suffix is requested unchanged; any other
\* input, one that holds the path followed by a slash or more text
\* included, has all its trailing slashes trimmed and the suffix appended
\* once.
C5_Normalized ==
    sent =>
        /\ EndsWith(requested, Suffix)
        /\ EndsWith(api_url, Suffix) => requested = api_url
        /\ ~EndsWith(api_url, Suffix) =>
              \E k \in 0..Len(api_url) :
                 LET kept == SubSeq(api_url, 1, Len(api_url) - k) IN
                 /\ \A i \in (Len(api_url) - k + 1)..Len(api_url) : api_url[i] = "/"
                 /\ kept # <<>> => kept[Len(kept)] # "/"
                 /\ requested = kept \o Suffix
                 /\ Occurrences(requested, Suffix) = Occurrences(kept, Suffix) + 1

C5_Witness ==
    /\ sent
    /\ api_url = <<"h", "/", "/">>
    /\ requested = <<"h">> \o Suffix

\* ------------------------------------------------------------------ C6
\* C6 as stated: an unreachable endpoint yields (False, "ConnectionError").
C6_ConnectionErrorText ==
    (sent /\ transport.kind = "connection_error") =>
        (~result.ok /\ result.reason.text = "ConnectionError")

\* C6 (amended): send_data never raises; a timeout (connect timeouts
\* included) gives (False, "Timeout"), an unreachable endpoint gives
\* (False, "Connection Error"), a 4xx/5xx status gives (False, "HTTP Error:
\* <err>") with the status in <err>, and any other exception, a body that
\* is no JSON included, gives (False, str(e)).
C6_FailureTaxonomy ==
    sent =>
        /\ ~result.raised
        /\ transport.kind \in {"timeout", "connect_timeout"} =>
              (~result.ok /\ result.reason = Reason("Timeout", 0, ""))
        /\ transport.kind = "connection_error" =>
              (~result.ok /\ result.reason = Reason("Connection Error", 0, ""))
        /\ (transport.kind = "response" /\ transport.status >= 400) =>
              /\ ~result.ok
              /\ result.reason.text = "HTTP Error: "
              /\ result.reason.status = transport.status
        /\ transport.kind = "other" =>
              (~result.ok /\ result.reason = Reason("", 0, "other"))
        /\ (transport.kind = "response" /\ transport.status < 400 /\ ~transport.json_ok) =>
              (~result.ok /\ result.reason = Reason("", 0, "JSONDecodeError"))

C6_Witness ==
    /\ sent /\ transport.kind = "connection_error"
    /\ ~result.ok /\ ~result.raised
    /\ result.reason.text = "Connection Error"

\* ------------------------------------------------------------------ C7
\* C7: send_data returns (True, body) exactly when the server answered
\* with a 2xx status and a body that parses as JSON.
C7_SuccessOnly2xx ==
    sent =>
        (result.ok <=> /\ transport.kind = "response"
                       /\ 200 <= transport.status /\ transport.status <= 299
                       /\ transport.json_ok)

\* ============================================================ cli.py
\* get_or_create_device_id run alone, start to end, on filesystem state f
\* with the outcomes io of its three writes; n numbers the fresh UUID
get_or_create_device_id(f, io, n) ==
    IF ~f.dir /\ ~io.mk_ok
    THEN [raised |-> TRUE, ret |-> NoId, fs |-> f]
    ELSE IF f.file.exists /\ Lookup(f.file).found
    THEN [raised |-> FALSE, ret |-> Lookup(f.file).value, fs |-> [f EXCEPT !.dir = TRUE]]
    ELSE IF ~io.open_ok
    THEN [raised |-> FALSE, ret |-> UUID(n), fs |-> [f EXCEPT !.dir = TRUE]]
    ELSE [raised |-> FALSE, ret |-> UUID(n),
          fs |-> [dir |-> TRUE,
                  file |-> [exists |-> TRUE,
                            readable |-> IF f.file.exists THEN f.file.readable ELSE TRUE,
                            content |-> IF io.dump_ok THEN Record(UUID(n), 1) ELSE Empty]]]

RunUrls ==
    {<<"h">>, <<"h", "/">>, <<"h">> \o Suffix}

RunFs ==
    {[dir |-> FALSE, file |-> Absent], [dir |-> TRUE, file |-> Absent]}
    \cup {[dir |-> TRUE, file |-> [exists |-> TRUE, readable |-> TRUE, content |-> c]] :
            c \in {Empty, Content("object", TRUE, UUID(0), 0)}}

\* the summary prints index cpu['brand'], cpu['logical_cores'] and
\* ram['total_gb'] without a default
summary_raises(m) ==
    \/ "brand" \notin DOMAIN m.cpu
    \/ "logical_cores" \notin DOMAIN m.cpu
    \/ "total_gb" \notin DOMAIN m.ram

InitRun ==
    /\ rpc = "identity"
    /\ backend_url \in RunUrls
    /\ fs \in RunFs
    /\ device_uuid = NoId
    /\ system_metrics = Raise
    /\ send_res = Failure(Reason("", 0, ""))
    /\ exit_status = 0
    /\ IdUnused /\ ScanUnused /\ SendUnused

\* 1. device_uuid = get_or_create_device_id()
RunIdentity ==
    /\ rpc = "identity"
    /\ \E io \in [mk_ok : BOOLEAN, open_ok : BOOLEAN, dump_ok : BOOLEAN] :
          LET r == get_or_create_device_id(fs, io, 1) IN
          /\ fs' = r.fs
          /\ device_uuid' = r.ret
          /\ rpc' = IF r.raised THEN "crashed_identity" ELSE "scan"
    /\ UNCHANGED <<backend_url, system_metrics, send_res, exit_status>>
    /\ UNCHANGED notRunVars

\* 2. system_metrics = scan_system()
RunScanSystem ==
    /\ rpc = "scan"
    /\ \E w \in BOOLEAN, rf \in BOOLEAN, df \in BOOLEAN, g \in GputilProbes :
        \E c \in CpuProbes(w) :
          LET r == scan_system([windows |-> w, cpu |-> c, ram_fail |-> rf,
                                disk_fail |-> df, gputil |-> g,
                                torch |-> [mode |-> "cuda", appended |-> 0, raised |-> TRUE],
                                wmic |-> [ok |-> FALSE, lines |-> <<>>]]) IN
          /\ system_metrics' = r
          /\ rpc' = IF r.raised THEN "crashed_scan" ELSE "summary"
    /\ UNCHANGED <<backend_url, fs, device_uuid, send_res, exit_status>>
    /\ UNCHANGED notRunVars

\* the DETECTED SPECIFICATIONS prints and the payload
RunSummary ==
    /\ rpc = "summary"
    /\ rpc' = IF summary_raises(system_metrics.value) THEN "crashed_summary" ELSE "send"
    /\ UNCHANGED <<backend_url, fs, device_uuid, system_metrics, send_res, exit_status>>
    /\ UNCHANGED notRunVars

\* 4. success, result = send_data(payload, backend_url); sys.exit(1) on failure
RunSend ==
    /\ rpc = "send"
    /\ \E t \in Transports :
          LET r == send_data(normalize(backend_url), t) IN
          /\ send_res' = r
          /\ rpc' = IF r.raised THEN "crashed_send" ELSE IF r.ok THEN "done" ELSE "exited"
          /\ exit_status' = IF r.raised \/ ~r.ok THEN 1 ELSE 0
    /\ UNCHANGED <<backend_url, fs, device_uuid, system_metrics>>
    /\ UNCHANGED notRunVars

NextRun ==
    \/ RunIdentity
    \/ RunScanSystem
    \/ RunSummary
    \/ RunSend

SpecRun ==
    InitRun /\ [][NextRun]_vars

\* ------------------------------------------------------------------ C8
Degraded ==
    /\ rpc \in {"summary", "send", "done", "exited", "crashed_summary", "crashed_send"}
    /\ \/ system_metrics.value.cpu = EmptyObj
       \/ system_metrics.value.ram = EmptyObj
       \/ system_metrics.value.storage = EmptyObj

\* C8: run_scan exits 1 when send_data reports failure and 0 when it
\* reports success, and a snapshot with an empty cpu, ram or storage
\* section never ends the run before the submission step.
C8_FailLoudOnlyAtSend ==
    /\ rpc = "done" => (send_res.ok /\ exit_status = 0)
    /\ rpc = "exited" => (~send_res.ok /\ exit_status = 1)
    /\ Degraded => rpc \notin {"crashed_scan", "crashed_summary"}

====
